---- MODULE Spec2Model ----
(***************************************************************************)
(* Model of the QR/barcode detection application:                          *)
(*   core/camera.py          CameraManager (frame queue, capture thread)   *)
(*   core/opencv_detector.py OpenCVDetector.detect_codes                   *)
(* Spec    : one CameraManager, the capture threads start_capture spawns,  *)
(*           the caller of initialize/start/stop and a consumer of the     *)
(*           frame queue.                                                  *)
(* SpecDet : one OpenCVDetector and the passes of detect_codes.            *)
(***************************************************************************)
EXTENDS Integers, Sequences, FiniteSets, Bags, TLC

\* ------------------------------------------------------------- bounds
\* Thread objects start_capture may create in one run.
MaxThreads == 2
\* Frames the capture device delivers in one run.
MaxFrames == 3
\* ---------------------------------------------------------- constants
\* Queue(maxsize=2)
QueueMaxSize == 2

VARIABLES
    cap,             \* self.cap: "None", or the VideoCapture object: "open" / "closed"
    is_running,      \* self.is_running
    frame_queue,     \* self.frame_queue, oldest first (frames are sequence numbers)
    capture_thread,  \* self.capture_thread is a Thread (not None)
    loops,           \* the bag of capture threads created: for each its position
                     \* pc in _capture_loop and its local `frame` (0: none)
    nframes,         \* frames the device has delivered so far
    mpc,             \* position of the caller inside stop_capture
    lastOp,          \* the last CameraManager call that returned
    ret,             \* how it returned
    cpc,             \* position of the consumer inside get_frame_blocking
    popped,          \* what the last of the gets counted in npops returned
                     \* (0: None, -1: no such get)
    pushLog,         \* the frames pushed one after the other with no get in
                     \* between, in order (the last QueueMaxSize + 1 are kept)
    npops,           \* the gets that followed QueueMaxSize or more such pushes
                     \* (counted up to QueueMaxSize + 1)
    fps_updates,     \* the self.fps_counter.update() calls made so far
    cb_raised,       \* the last self.frame_callback(frame) call raised (kept
                     \* while one capture thread only has been created)
    last_got         \* the frame the last get that returned a frame returned
                     \* (0: none; kept while one capture thread only has been
                     \* created)

camVars == <<cap, is_running, frame_queue, capture_thread, loops, nframes, mpc,
             lastOp, ret, cpc, popped, pushLog, npops, fps_updates, cb_raised,
             last_got>>

VARIABLES
    detection_history,  \* self.detection_history
    dpc,                \* position of the caller inside detect_codes
    roi,                \* the roi argument of the call (<<>>: None)
    found,              \* the local list `results`, each entry with the decoder
                        \* report it was made from
    batch,              \* the list the last detect_codes returned
    dups,               \* decoder reports of the call skipped as already present,
                        \* counted per pass
    ncalls,             \* detect_codes calls made
    caught,             \* the except clauses the call has gone through:
                        \* "qr" (line 85), "import" (line 109), "barcode" (line 111)
    stats,              \* the dict the last get_detection_statistics returned
                        \* (<<>>: not called)
    clock,              \* what time.time() returns
    rate,               \* by how much time.time() advances from one reading to the next
    start_time,         \* the local start_time of detect_codes
    pass_start,         \* time.time() when the decoder at hand was called
    times               \* detection_time of the entries of `results`, in order

detVars == <<detection_history, dpc, roi, found, batch, dups, ncalls, caught, stats,
             clock, rate, start_time, pass_start, times>>

VARIABLES
    frame_times,      \* PerformanceMonitor.frame_times, oldest first
    frame_count,      \* PerformanceMonitor.frame_count
    detection_count,  \* PerformanceMonitor.detection_count
    monitoring,       \* PerformanceMonitor.monitoring
    lock,             \* PerformanceMonitor.lock: "free" or "held"
    spc,              \* position of the caller inside get_performance_summary
    now,              \* what time.time() returns
    spacing,          \* by how much the clock advances from one update_fps to the next
    fps,              \* what get_current_fps returned as <<numerator, denominator>>
                      \* when it was the last call made (<<0, 0>> otherwise)
    times_log,        \* the timestamps update_fps recorded since construction or
                      \* the last reset_stats, all of them
    nrecords          \* update_fps calls made

monVars == <<frame_times, frame_count, detection_count, monitoring, lock, spc,
             now, spacing, fps, times_log, nrecords>>

VARIABLES
    start_point,      \* ROISelector.start_point (<<>>: None)
    end_point,        \* ROISelector.end_point (<<>>: None)
    selecting,        \* ROISelector.selecting
    sel_roi,          \* ROISelector.roi (<<>>: None)
    last_button,      \* history: last event other than a move ("none", "down", "up", "reset")
    moved             \* history: a move event has arrived since last_button

roiVars == <<start_point, end_point, selecting, sel_roi, last_button, moved>>

VARIABLES
    results_history,  \* ResultExporter.results_history
    added,            \* the results argument of the last add_results
    todo,             \* per calling thread: the results its add_results loop
                      \* has still to go through
    apc               \* per calling thread: its position inside add_results

expVars == <<results_history, added, todo, apc>>

VARIABLES
    camera_active,    \* SimpleMainWindow.camera_active
    camera_var,       \* what the camera combobox shows ("": nothing yet)
    gpc               \* position of the GUI thread inside the handler it runs

guiVars == <<camera_active, camera_var, gpc>>

vars == <<camVars, detVars, monVars, roiVars, expVars, guiVars>>

Range(s) == {s[i] : i \in DOMAIN s}

\* ------------------------------------------------------ queue.Queue
\* Queue.full()
QFull(q) == Len(q) >= QueueMaxSize

\* Queue.get_nowait() taking the newest entry instead of the oldest.
QGetNewest(q) == IF q = <<>> THEN q ELSE SubSeq(q, 1, Len(q) - 1)

\* Queue.get_nowait(): the queue left; Empty is raised on an empty queue
\* and every caller swallows it.
QGet(q) == IF q = <<>> THEN q ELSE Tail(q)

\* The get handing Empty on to its caller (-2).
QGotPropagates(q) == IF q = <<>> THEN -2 ELSE Head(q)

\* What Queue.get_nowait() / Queue.get() hands back (0: Empty was raised).
QGot(q) == IF q = <<>> THEN 0 ELSE Head(q)

\* Queue.put_nowait(f) without the maxsize test.
QPutUnbounded(q, f) == Append(q, f)

\* Queue.put_nowait(f) putting the frame ahead of the frames queued.
QPutFront(q, f) == IF QFull(q) THEN q ELSE <<f>> \o q

\* Queue.put_nowait(f): Full is raised on a full queue and the loop swallows it.
QPut(q, f) == IF QFull(q) THEN q ELSE Append(q, f)

\* ------------------------------------------------------ the device
\* What cv2.VideoCapture does inside initialize_camera.
DevInit == {"exc_open", "not_opened", "exc_config", "read_fail", "ok"}

\* What cap.read() does on an opened device.
DevRead == {"frame", "noframe", "error"}

\* self.cap after initialize_camera, given self.cap before and the device.
InitCap(c, d) ==
    CASE d = "exc_open"   -> c          \* VideoCapture() raised: no assignment
      [] d = "not_opened" -> "closed"   \* return False, the object is kept
      [] d = "exc_config" -> "open"     \* cap.set / cap.read raised: except, return False
      [] d = "read_fail"  -> "closed"   \* cap.release(); return False
      [] OTHER            -> "open"

\* The value initialize_camera returns.
InitRet(d) == IF d = "ok" THEN "True" ELSE "False"

\* cap.read() as the loop sees it: self.cap None raises AttributeError, a
\* released object reads (False, None), an opened one does what the device does.
ReadOutcome(c, d) ==
    CASE c = "None"   -> "error"
      [] c = "closed" -> "noframe"
      [] OTHER        -> d

\* is_camera_active()
IsCameraActive == is_running /\ cap # "None" /\ cap = "open"

\* ------------------------------------------------------ the threads
Thread(p, f) == [pc |-> p, frame |-> f]

Created == BagToSet(loops)

\* Thread th is inside the push step of the loop (camera.py lines 135-146).
InPush(th) == th.pc \in {"full", "evict", "put"}

Dead(th) == th.pc \in {"exited", "broken"}

Alive == {th \in Created : ~Dead(th)}

\* Threads alive, counted with multiplicity.
NAlive == BagCardinality(loops) - CopiesIn(Thread("exited", 0), loops)
                                - CopiesIn(Thread("broken", 0), loops)

\* The bag of threads once one thread at th has moved to th2.
Moved(th, th2) == (loops (-) SetToBag({th})) (+) SetToBag({th2})

\* ---------------------------------------------------------- Init
InitCam ==
    /\ cap = "None"
    /\ is_running = FALSE
    /\ frame_queue = <<>>
    /\ capture_thread = FALSE
    /\ loops = EmptyBag
    /\ nframes = 0
    /\ mpc = "idle"
    /\ lastOp = "none"
    /\ ret = "none"
    /\ cpc = "idle"
    /\ popped = -1
    /\ pushLog = <<>>
    /\ npops = 0
    /\ fps_updates = 0
    /\ cb_raised = FALSE
    /\ last_got = 0

DetStart ==
    /\ detection_history = <<>>
    /\ dpc = "idle"
    /\ roi = <<>>
    /\ found = <<>>
    /\ batch = <<>>
    /\ dups = [multi |-> 0, barcode |-> 0]
    /\ ncalls = 0
    /\ caught = {}
    /\ stats = <<>>
    /\ clock = 0
    /\ start_time = 0
    /\ pass_start = 0
    /\ times = <<>>

\* The detector with a clock that does not move during a call.
InitDet == DetStart /\ rate = 0

\* PerformanceMonitor.__init__, the clock left aside
MonStart ==
    /\ frame_times = <<>>
    /\ frame_count = 0
    /\ detection_count = 0
    /\ monitoring = FALSE
    /\ lock = "free"
    /\ spc = "idle"
    /\ now = 0
    /\ fps = <<0, 0>>
    /\ times_log = <<>>
    /\ nrecords = 0

InitMon == MonStart /\ spacing = 1

\* ROISelector.__init__
InitRoi ==
    /\ start_point = <<>>
    /\ end_point = <<>>
    /\ selecting = FALSE
    /\ sel_roi = <<>>
    /\ last_button = "none"
    /\ moved = FALSE

\* ResultExporter.__init__
\* The threads that call add_results: the GUI thread (process_image ->
\* save_to_excel) and the capture thread (camera_frame_callback ->
\* save_to_excel).
Callers == {"gui", "capture"}

InitExp ==
    /\ results_history = <<>>
    /\ added = <<>>
    /\ todo = [t \in Callers |-> <<>>]
    /\ apc = [t \in Callers |-> "idle"]

InitGui ==
    /\ camera_active = FALSE
    /\ camera_var = ""
    /\ gpc = "idle"

Init == InitCam /\ InitDet /\ InitMon /\ InitRoi /\ InitExp /\ InitGui

\* ------------------------------------------------ CameraManager calls
InitializeCamera(d) ==
    /\ mpc = "idle"
    /\ cap' = InitCap(cap, d)
    /\ ret' = InitRet(d)
    /\ lastOp' = "initialize_camera"
    /\ UNCHANGED <<is_running, frame_queue, capture_thread, loops, nframes, mpc,
                   cpc, popped, pushLog, npops>>
    /\ UNCHANGED <<fps_updates, cb_raised, last_got>>

\* start_capture swallowing a failed initialization.
StartRetSilent(c, d) == "None"

\* How start_capture returns: it raises RuntimeError when it has to
\* initialize the camera and that fails, and returns None otherwise.
StartRet(c, d) == IF c # "open" /\ InitRet(d) = "False" THEN "raised" ELSE "None"

\* The threads after start_capture has started a new one.
Started(b) == b (+) SetToBag({Thread("loop", 0)})

StartCapture(d) ==
    /\ mpc = "idle"
    /\ BagCardinality(loops) < MaxThreads
    /\ d = "unused" <=> cap = "open"
    /\ lastOp' = "start_capture"
    /\ ret' = StartRet(cap, d)
    /\ cap' = IF cap = "open" THEN cap ELSE InitCap(cap, d)
    /\ IF StartRet(cap, d) = "raised"
       THEN UNCHANGED <<is_running, capture_thread, loops, cb_raised, last_got>>
       ELSE /\ is_running' = TRUE
            /\ capture_thread' = TRUE
            /\ loops' = Started(loops)
            /\ cb_raised' = FALSE
            /\ last_got' = IF loops = EmptyBag THEN last_got ELSE 0
    /\ UNCHANGED <<frame_queue, nframes, mpc, cpc, popped, pushLog, npops>>
    /\ UNCHANGED fps_updates

\* stop_capture up to the join: self.is_running = False
StopFlag ==
    /\ mpc = "idle"
    /\ is_running' = FALSE
    /\ mpc' = "join"
    /\ UNCHANGED <<cap, frame_queue, capture_thread, loops, nframes, lastOp, ret,
                   cpc, popped, pushLog, npops>>
    /\ UNCHANGED <<fps_updates, cb_raised, last_got>>

\* stop_capture releasing the device and keeping the released object.
StopCapKeepsHandle(c) == IF c = "None" THEN "None" ELSE "closed"

\* self.cap once stop_capture has released the device.
StopCap(c) == "None"

\* stop_capture emptying the queue.
StopQueueDrained(q) == <<>>

\* The queue after stop_capture: no statement of stop_capture names it.
StopQueue(q) == q

\* A join that returns only once the capture threads have ended.
JoinWaitsForExit(ls) == \A th \in BagToSet(ls) : Dead(th)

\* self.capture_thread.join(timeout=2.0) returns: when the thread has ended,
\* or when the timeout has expired with the thread still running.
JoinReturns(ls) == TRUE

\* stop_capture from the join on: once the join has returned the device is
\* released and self.cap = None.
StopRelease ==
    /\ mpc = "join"
    /\ JoinReturns(loops)
    /\ cap' = StopCap(cap)
    /\ mpc' = "idle"
    /\ lastOp' = "stop_capture"
    /\ ret' = "None"
    /\ frame_queue' = StopQueue(frame_queue)
    /\ UNCHANGED <<is_running, capture_thread, loops, nframes,
                   cpc, popped, pushLog, npops>>
    /\ UNCHANGED <<fps_updates, cb_raised, last_got>>

\* ---------------------------------------------------- _capture_loop
\* while self.is_running:
LoopCheck(th) ==
    /\ th.pc = "loop"
    /\ loops' = Moved(th, Thread(IF is_running THEN "read" ELSE "exited", 0))
    /\ UNCHANGED <<cap, is_running, frame_queue, capture_thread, nframes, mpc,
                   lastOp, ret, cpc, popped, pushLog, npops>>
    /\ UNCHANGED <<fps_updates, cb_raised, last_got>>

\* ret, frame = self.cap.read(); break unless ret; self.fps_counter.update()
\* self.fps_counter.update() leaving the count as it was.
FpsUpdateSkipped(n) == n

\* self.fps_counter.update(): one more frame counted.
FpsUpdate(n) == n + 1

Read(th, d) ==
    /\ th.pc = "read"
    /\ ReadOutcome(cap, d) = "frame" => nframes < MaxFrames
    /\ IF ReadOutcome(cap, d) = "frame"
       THEN /\ nframes' = nframes + 1
            /\ fps_updates' = FpsUpdate(fps_updates)
            /\ loops' = Moved(th, Thread("full", nframes + 1))
       ELSE /\ loops' = Moved(th, Thread("broken", 0))
            /\ UNCHANGED <<nframes, fps_updates>>
    /\ UNCHANGED <<cb_raised, last_got>>
    /\ UNCHANGED <<cap, is_running, frame_queue, capture_thread, mpc, lastOp, ret,
                   cpc, popped, pushLog, npops>>

\* if self.frame_queue.full():
FullCheck(th) ==
    /\ th.pc = "full"
    /\ loops' = Moved(th, Thread(IF QFull(frame_queue) THEN "evict" ELSE "put", th.frame))
    /\ UNCHANGED <<cap, is_running, frame_queue, capture_thread, nframes, mpc,
                   lastOp, ret, cpc, popped, pushLog, npops>>
    /\ UNCHANGED <<fps_updates, cb_raised, last_got>>

\* try: self.frame_queue.get_nowait() except: pass
Evict(th) ==
    /\ th.pc = "evict"
    /\ frame_queue' = QGet(frame_queue)
    /\ loops' = Moved(th, Thread("put", th.frame))
    /\ UNCHANGED <<cap, is_running, capture_thread, nframes, mpc, lastOp, ret,
                   cpc, popped, pushLog, npops>>
    /\ UNCHANGED <<fps_updates, cb_raised, last_got>>

\* Another capture thread is inside its push step.
OthersInPush(th) ==
    \E th2 \in Created : InPush(th2) /\ (th2 # th \/ CopiesIn(th, loops) > 1)

\* The log of pushes after put_nowait(f) on queue q: a frame is pushed when
\* put_nowait has put it; a push that follows a get starts a new run of
\* pushes, and so does a push step that overlaps another thread's.
Pushed(q, log, n, f, overlap) ==
    IF overlap THEN <<>>
    ELSE IF QFull(q) THEN log
    ELSE IF n > 0 THEN <<f>>
    ELSE IF Len(log) <= QueueMaxSize THEN Append(log, f)
    ELSE Append(Tail(log), f)

\* try: self.frame_queue.put_nowait(frame) except: pass
Put(th) ==
    /\ th.pc = "put"
    /\ frame_queue' = QPut(frame_queue, th.frame)
    /\ loops' = Moved(th, Thread("callback", th.frame))
    /\ pushLog' = Pushed(frame_queue, pushLog, npops, th.frame, OthersInPush(th))
    /\ npops' = IF QFull(frame_queue) /\ ~OthersInPush(th) THEN npops ELSE 0
    /\ popped' = IF QFull(frame_queue) /\ ~OthersInPush(th) THEN popped ELSE -1
    /\ UNCHANGED <<cap, is_running, capture_thread, nframes, mpc, lastOp, ret, cpc>>
    /\ UNCHANGED <<fps_updates, cb_raised, last_got>>

\* What frame_callback(frame) does on a call: returns, or raises.
CallbackOutcomes == {"ok", "raise"}

\* The loop ending on an exception of the callback.
CallbackFatal(r) == IF r = "raise" THEN Thread("broken", 0) ELSE Thread("loop", 0)

\* Where the loop goes after the callback: an exception of the callback is
\* caught and printed, and the loop sleeps and goes on.
CallbackNext(r) == Thread("loop", 0)

\* if self.frame_callback: try: self.frame_callback(frame) except Exception: print
\* time.sleep(1.0 / self.target_fps)
Callback(th, r) ==
    /\ th.pc = "callback"
    /\ loops' = Moved(th, CallbackNext(r))
    /\ cb_raised' = (r = "raise" /\ BagCardinality(loops) = 1)
    /\ UNCHANGED <<cap, is_running, frame_queue, capture_thread, nframes, mpc,
                   lastOp, ret, cpc, popped, pushLog, npops, fps_updates, last_got>>

\* ------------------------------------------------------ the consumer
\* The log of pushes, the count of gets and the value got after one more
\* get: a get counts when it follows a run of QueueMaxSize or more pushes; a
\* get that falls inside a push step breaks the run.
GetCounts == Len(pushLog) >= QueueMaxSize /\ ~\E th \in Created : InPush(th)
LogAfterGet == IF GetCounts THEN pushLog ELSE <<>>
GetsAfterGet ==
    IF ~GetCounts THEN 0
    ELSE IF npops <= QueueMaxSize THEN npops + 1 ELSE npops
GotAfterGet == IF GetCounts THEN QGot(frame_queue) ELSE -1
\* The frame the last get returned, after one more get.
LastGotAfterGet ==
    IF BagCardinality(loops) <= 1 /\ frame_queue # <<>> THEN QGot(frame_queue)
    ELSE last_got

\* get_latest_frame(): self.frame_queue.get_nowait(), None on Empty
GetLatestFrame ==
    /\ cpc = "idle"
    /\ popped' = GotAfterGet
    /\ frame_queue' = QGet(frame_queue)
    /\ pushLog' = LogAfterGet
    /\ npops' = GetsAfterGet
    /\ UNCHANGED <<cap, is_running, capture_thread, loops, nframes, mpc, lastOp,
                   ret, cpc>>
    /\ UNCHANGED <<fps_updates, cb_raised>>
    /\ last_got' = LastGotAfterGet

\* get_frame_blocking(timeout): self.frame_queue.get(timeout=timeout) returns
\* the oldest frame at once when there is one, and waits otherwise.
GetFrameBlocking ==
    /\ cpc = "idle"
    /\ IF frame_queue = <<>>
       THEN /\ cpc' = "waiting"
            /\ UNCHANGED <<popped, frame_queue, pushLog, npops>>
       ELSE /\ popped' = GotAfterGet
            /\ frame_queue' = QGet(frame_queue)
            /\ pushLog' = LogAfterGet
            /\ npops' = GetsAfterGet
            /\ UNCHANGED cpc
    /\ UNCHANGED <<cap, is_running, capture_thread, loops, nframes, mpc, lastOp, ret>>
    /\ UNCHANGED <<fps_updates, cb_raised>>
    /\ last_got' = IF cpc' = "waiting" THEN last_got ELSE LastGotAfterGet

\* The waiting get ends: with the oldest frame once one has been put, with
\* Empty (None) when the timeout expires on an empty queue.
GetFrameBlockingEnd ==
    /\ cpc = "waiting"
    /\ cpc' = "idle"
    /\ popped' = GotAfterGet
    /\ frame_queue' = QGet(frame_queue)
    /\ pushLog' = LogAfterGet
    /\ npops' = GetsAfterGet
    /\ UNCHANGED <<cap, is_running, capture_thread, loops, nframes, mpc, lastOp, ret>>
    /\ UNCHANGED <<fps_updates, cb_raised>>
    /\ last_got' = LastGotAfterGet

\* ------------------------------------------- SimpleMainWindow, camera tab
\* The GUI thread is inside list_available_cameras.
Probing == gpc \in {"refresh", "start_probe"}

\* The camera button is disabled by a refresh that found no camera.
ButtonEnabled == camera_var # "No cameras available"

\* What refresh_cameras puts into the combobox.
ComboAfterRefresh(cameras) == IF cameras THEN "0: Camera 0" ELSE "No cameras available"

\* refresh_cameras up to its call of list_available_cameras (the Refresh
\* Cameras button, and the call scheduled at start-up).
RefreshBegin ==
    /\ gpc = "idle"
    /\ gpc' = "refresh"
    /\ UNCHANGED <<camera_active, camera_var>>

\* list_available_cameras returns (cameras: the list is not empty) and
\* refresh_cameras fills the combobox.
RefreshEnd(cameras) ==
    /\ gpc = "refresh"
    /\ gpc' = "idle"
    /\ camera_var' = ComboAfterRefresh(cameras)
    /\ UNCHANGED camera_active

\* toggle_camera with the camera off: start_camera up to its call of
\* has_available_cameras, which calls list_available_cameras.
StartCameraProbe ==
    /\ gpc = "idle"
    /\ ButtonEnabled
    /\ ~camera_active
    /\ gpc' = "start_probe"
    /\ UNCHANGED <<camera_active, camera_var>>

\* has_available_cameras returns; start_camera returns with a warning when
\* no camera was found or none is selected.
StartCameraSelect(cameras) ==
    /\ gpc = "start_probe"
    /\ gpc' = IF cameras /\ camera_var = "0: Camera 0" THEN "start_init" ELSE "idle"
    /\ UNCHANGED <<camera_active, camera_var>>

\* if self.camera_manager.initialize_camera():
StartCameraInit(d) ==
    /\ gpc = "start_init"
    /\ InitializeCamera(d)
    /\ gpc' = IF InitRet(d) = "True" THEN "start_capture" ELSE "idle"
    /\ UNCHANGED <<camera_active, camera_var>>

\* self.camera_manager.start_capture(self.camera_frame_callback)
\* self.camera_active = True
StartCameraCapture ==
    /\ gpc = "start_capture"
    /\ \E d \in DevInit \cup {"unused"} : StartCapture(d)
    /\ gpc' = "idle"
    /\ camera_active' = (ret' # "raised")
    /\ UNCHANGED camera_var

\* toggle_camera with the camera on: stop_camera up to the join of stop_capture.
StopCameraFlag ==
    /\ gpc = "idle"
    /\ ButtonEnabled
    /\ camera_active
    /\ StopFlag
    /\ gpc' = "stop"
    /\ UNCHANGED <<camera_active, camera_var>>

\* stop_capture returns; self.camera_active = False
StopCameraRelease ==
    /\ gpc = "stop"
    /\ StopRelease
    /\ gpc' = "idle"
    /\ camera_active' = FALSE
    /\ UNCHANGED camera_var

\* ------------------------------------------- OpenCVDetector.detect_codes
\* Decoder reports per detectAndDecodeMulti / pyzbar.decode call.
MaxSyms == 2
\* detect_codes calls in one run.
MaxCalls == 1
\* The largest time.time() reading from which a decoder still takes time.
MaxTick == 2
\* Advances of time.time() between two readings.
Rates == {0, 1}

SeqsUpTo(S, n) == UNION {[1..k -> S] : k \in 0..n}

Min(S) == CHOOSE m \in S : \A x \in S : m <= x
Max(S) == CHOOSE m \in S : \A x \in S : m >= x

\* roi arguments: None, or a region (x, y, w, h).
RoiA == <<5, 7, 10, 10>>
Rois == {<<>>, RoiA}

\* Corner points the decoders report, in the coordinates of the image they
\* were given.
PolyA == <<<<1, 1>>, <<3, 1>>, <<3, 3>>, <<1, 3>>>>
PolyB == <<<<4, 0>>, <<6, 0>>, <<6, 2>>, <<4, 2>>>>
PolyC == <<<<2, 4>>, <<5, 4>>, <<4, 5>>, <<2, 5>>>>
RectC == <<2, 4, 3, 1>>

\* detectAndDecode: raises, or returns (data, points); data "" is nothing
\* decoded, points <<>> is None.
PrimaryOuts ==
    {[st |-> "exc", data |-> "", points |-> <<>>]} \cup
    {[st |-> "ok", data |-> d, points |-> p] : d \in {"", "a", "b"}, p \in {<<>>, PolyA}}

\* detectAndDecodeMulti: success False, or the (data, points) pairs; with
\* "exc" the pairs the loop went through before an exception was raised.
QRSyms == {[data |-> d, points |-> PolyB] : d \in {"", " ", "a", "b"}}
MultiOuts ==
    {[st |-> "fail", syms |-> <<>>]} \cup
    {[st |-> t, syms |-> l] : t \in {"ok", "exc"}, l \in SeqsUpTo(QRSyms, MaxSyms)}

\* pyzbar.decode: pyzbar cannot be imported, or the barcodes; with "exc" the
\* barcodes the loop went through before an exception was raised.
BarSyms ==
    {[data |-> "a", type |-> "QRCODE", rect |-> RectC, polygon |-> PolyC],
     [data |-> "b", type |-> "EAN13", rect |-> RectC, polygon |-> <<>>],
     [data |-> "c", type |-> "EAN13", rect |-> RectC, polygon |-> <<>>]}
BarcodeOuts ==
    {[st |-> "missing", syms |-> <<>>]} \cup
    {[st |-> t, syms |-> l] : t \in {"ok", "exc"}, l \in SeqsUpTo(BarSyms, MaxSyms)}

\* roi_offset
RoiOffset(r) == IF r # <<>> THEN <<r[1], r[2]>> ELSE <<0, 0>>

\* [(int(p[0]) + roi_offset[0], int(p[1]) + roi_offset[1]) for p in points]
Shift(pts, off) == [i \in DOMAIN pts |-> <<pts[i][1] + off[1], pts[i][2] + off[2]>>]

\* A rect (x, y, w, h) moved by an offset.
ShiftRect(rc, off) == <<rc[1] + off[1], rc[2] + off[2], rc[3], rc[4]>>

\* x, y = min of the polygon; w, h = max of the polygon - x, y
BBox(pts) ==
    LET xs == {pts[i][1] : i \in DOMAIN pts}
        ys == {pts[i][2] : i \in DOMAIN pts}
    IN  <<Min(xs), Min(ys), Max(xs) - Min(xs), Max(ys) - Min(ys)>>

\* [(x, y), (x + w, y), (x + w, y + h), (x, y + h)]
Corners(rc) ==
    <<<<rc[1], rc[2]>>, <<rc[1] + rc[3], rc[2]>>,
      <<rc[1] + rc[3], rc[2] + rc[4]>>, <<rc[1], rc[2] + rc[4]>>>>

\* data.strip() on the payloads used here
Strip(d) == IF d = " " THEN "" ELSE d

\* any(r.data == data for r in results)
HasData(fnd, d) == \E i \in DOMAIN fnd : fnd[i].res.data = d

\* The list `results` itself.
Results(fnd) == [i \in DOMAIN fnd |-> fnd[i].res]

\* The DetectionResult built from a QR report, with the report.
QRFound(d, pts, off) ==
    LET polygon == Shift(pts, off)
    IN  [res |-> [data |-> d, type |-> "QRCODE", rect |-> BBox(polygon),
                  polygon |-> polygon],
         raw |-> [rect |-> BBox(pts), polygon |-> pts]]

\* The DetectionResult built from a pyzbar barcode, with the report.
BarcodeFound(b) ==
    LET polygon == IF b.polygon # <<>> THEN b.polygon ELSE Corners(b.rect)
    IN  [res |-> [data |-> b.data, type |-> b.type, rect |-> b.rect,
                  polygon |-> polygon],
         raw |-> [rect |-> b.rect, polygon |-> polygon]]

\* The primary pass: if data and points is not None: results.append(...)
QRPass(fnd, out, off) ==
    IF out.data # "" /\ out.points # <<>>
    THEN Append(fnd, QRFound(out.data, out.points, off))
    ELSE fnd

\* The multi pass putting each new result in front of the list.
RECURSIVE MultiPassFront(_, _, _)
MultiPassFront(fnd, syms, off) ==
    IF syms = <<>> THEN fnd
    ELSE LET s == Head(syms)
             nxt == IF s.data # "" /\ Strip(s.data) # "" /\ ~HasData(fnd, s.data)
                    THEN <<QRFound(s.data, s.points, off)>> \o fnd
                    ELSE fnd
         IN  MultiPassFront(nxt, Tail(syms), off)

\* The multi pass: blank payloads and payloads already in results are skipped.
RECURSIVE MultiPass(_, _, _)
MultiPass(fnd, syms, off) ==
    IF syms = <<>> THEN fnd
    ELSE LET s == Head(syms)
             nxt == IF s.data # "" /\ Strip(s.data) # "" /\ ~HasData(fnd, s.data)
                    THEN Append(fnd, QRFound(s.data, s.points, off))
                    ELSE fnd
         IN  MultiPass(nxt, Tail(syms), off)

\* The barcode pass appending every barcode.
RECURSIVE BarcodePassAll(_, _)
BarcodePassAll(fnd, syms) ==
    IF syms = <<>> THEN fnd
    ELSE BarcodePassAll(Append(fnd, BarcodeFound(Head(syms))), Tail(syms))

\* The barcode pass: payloads already in results are skipped.
RECURSIVE BarcodePass(_, _)
BarcodePass(fnd, syms) ==
    IF syms = <<>> THEN fnd
    ELSE LET b == Head(syms)
             nxt == IF ~HasData(fnd, b.data) THEN Append(fnd, BarcodeFound(b)) ELSE fnd
         IN  BarcodePass(nxt, Tail(syms))

\* Reports with a payload the multi pass does not take for blank.
NonBlank(syms) == Cardinality({i \in DOMAIN syms : Strip(syms[i].data) # ""})

\* detect_codes is entered: roi_offset is set and results = [].
DetectBegin(r) ==
    /\ dpc = "idle"
    /\ dpc' = "qr"
    /\ roi' = r
    /\ found' = <<>>
    /\ batch' = <<>>
    /\ dups' = [multi |-> 0, barcode |-> 0]
    /\ ncalls' = ncalls + 1
    /\ caught' = {}
    /\ clock' = clock + rate
    /\ start_time' = clock + rate
    /\ pass_start' = clock'
    /\ times' = <<>>
    /\ UNCHANGED <<detection_history, stats, rate>>

\* detection_time measured from the start of the pass.
LatencyOriginPerPass(st, pass) == pass

\* start_time, set once at line 34: detection_time = time.time() - start_time
LatencyOrigin(st, pass) == st

\* The detection_time of n results appended one after the other, time.time()
\* being t before the first and s the origin.
Readings(n, t, r, s) == [i \in 1..n |-> t + i * r - s]

\* The detection_time of the barcodes the barcode pass appends: time.time()
\* is read for every barcode (line 97), appended or not.
RECURSIVE BarcodeTimes(_, _, _, _, _)
BarcodeTimes(fnd, syms, t, r, s) ==
    IF syms = <<>> THEN <<>>
    ELSE LET b == Head(syms)
         IN  IF ~HasData(fnd, b.data)
             THEN <<t + r - s>> \o BarcodeTimes(Append(fnd, BarcodeFound(b)), Tail(syms), t + r, r, s)
             ELSE BarcodeTimes(fnd, Tail(syms), t + r, r, s)

\* An exception of detectAndDecode leaving detect_codes.
QRNextPropagates(st) == IF st = "exc" THEN "raised" ELSE "multi"

\* After detectAndDecode: except Exception leaves the QR block for the
\* barcode block, skipping the multi pass.
QRNext(st) == IF st = "exc" THEN "barcode" ELSE "multi"

\* The except clauses gone through, after a decoder reported st.
Caught(c, st, clause) == IF st = "exc" THEN c \cup {clause} ELSE c

\* detectAndDecode; an exception leaves the QR block, skipping the multi pass.
QRStep(out) ==
    /\ dpc = "qr"
    /\ found' = IF out.st = "exc" THEN found ELSE QRPass(found, out, RoiOffset(roi))
    /\ dpc' = QRNext(out.st)
    /\ caught' = Caught(caught, out.st, "qr")
    /\ LET n == Len(found') - Len(found)
       IN  /\ times' = times \o Readings(n, clock, rate, LatencyOrigin(start_time, pass_start))
           /\ clock' = clock + n * rate
    /\ pass_start' = clock'
    /\ UNCHANGED <<detection_history, roi, batch, dups, ncalls, stats, rate, start_time>>

\* detectAndDecodeMulti and its loop.
MultiStep(out) ==
    /\ dpc = "multi"
    /\ LET f == IF out.st = "fail" THEN found
                ELSE MultiPass(found, out.syms, RoiOffset(roi))
       IN  /\ found' = f
           /\ dups' = [dups EXCEPT !.multi = NonBlank(out.syms) - (Len(f) - Len(found))]
    /\ dpc' = "barcode"
    /\ caught' = Caught(caught, out.st, "qr")
    /\ LET n == Len(found') - Len(found)
       IN  /\ times' = times \o Readings(n, clock, rate, LatencyOrigin(start_time, pass_start))
           /\ clock' = clock + n * rate
    /\ pass_start' = clock'
    /\ UNCHANGED <<detection_history, roi, batch, ncalls, stats, rate, start_time>>

\* The history replaced by the results of the call.
HistoryReplace(h, r) == r

\* self.detection_history.extend(results)
HistoryExtend(h, r) == h \o r

\* pyzbar.decode and its loop, then history.extend(results); return results.
BarcodeStep(out) ==
    /\ dpc = "barcode"
    /\ LET f == IF out.st = "missing" THEN found ELSE BarcodePass(found, out.syms)
       IN  /\ found' = f
           /\ dups' = [dups EXCEPT !.barcode = Len(out.syms) - (Len(f) - Len(found))]
           /\ batch' = Results(f)
           /\ detection_history' = HistoryExtend(detection_history, Results(f))
    /\ dpc' = "idle"
    /\ caught' = (IF out.st = "missing" THEN caught \cup {"import"}
                  ELSE Caught(caught, out.st, "barcode"))
    /\ times' = times \o BarcodeTimes(found, out.syms, clock, rate, LatencyOrigin(start_time, pass_start))
    /\ clock' = clock + Len(out.syms) * rate
    /\ pass_start' = clock'
    /\ UNCHANGED <<roi, ncalls, stats, rate, start_time>>

\* clear_history
ClearHistory ==
    /\ detection_history' = <<>>
    /\ UNCHANGED <<dpc, roi, found, batch, dups, ncalls, caught, stats,
                    clock, rate, start_time, pass_start, times>>

\* Time passes inside a decoder.
Tick ==
    /\ dpc # "idle"
    /\ clock < MaxTick
    /\ clock' = clock + 1
    /\ UNCHANGED <<detection_history, dpc, roi, found, batch, dups, ncalls, caught, stats,
                    rate, start_time, pass_start, times>>

\* np.unique(types, return_counts=True) counting each type once.
TypeCountsUnit(h) == [t \in {h[i].type : i \in DOMAIN h} |-> 1]

\* dict(zip(*np.unique(types, return_counts=True))): the number of entries
\* of each type present.
TypeCounts(h) ==
    [t \in {h[i].type : i \in DOMAIN h} |-> Cardinality({i \in DOMAIN h : h[i].type = t})]

\* The dict of get_detection_statistics, without the means and extremes of
\* confidence and detection time.
Statistics(h) ==
    IF h = <<>> THEN [total_detections |-> 0]
    ELSE [total_detections |-> Len(h), code_types |-> TypeCounts(h)]

\* get_detection_statistics
GetDetectionStatistics ==
    /\ stats' = Statistics(detection_history)
    /\ UNCHANGED <<detection_history, dpc, roi, found, batch, dups, ncalls, caught,
                    clock, rate, start_time, pass_start, times>>

\* ------------------------------------------------ PerformanceMonitor
\* update_fps calls in one run.
MaxRecords == 61
\* record_detection_time calls between two reset_stats.
MaxDetections == 2
\* if len(self.frame_times) > 60: self.frame_times = self.frame_times[-60:]
WindowCap == 60

\* Clock advances between two update_fps calls (0: the clock has not moved).
Spacings == {0, 1, 2}

\* s[-n:]
LastN(s, n) == IF Len(s) <= n THEN s ELSE SubSeq(s, Len(s) - n + 1, Len(s))

\* frame_times after update_fps without the trimming.
WindowUncapped(ft, t) == Append(ft, t)

\* frame_times after update_fps at time t: append, then keep the last 60.
Window(ft, t) ==
    IF Len(Append(ft, t)) > WindowCap THEN LastN(Append(ft, t), WindowCap)
    ELSE Append(ft, t)

\* get_current_fps dividing the number of samples by the time span.
CurrentFpsCountOverSpan(ft) ==
    IF Len(ft) < 2 THEN <<0, 1>>
    ELSE IF ft[Len(ft)] - ft[1] <= 0 THEN <<0, 1>>
    ELSE <<Len(ft), ft[Len(ft)] - ft[1]>>

\* get_current_fps: 0.0 with fewer than 2 samples or a time span <= 0,
\* (len - 1) / time_span otherwise, as <<numerator, denominator>>.
CurrentFps(ft) ==
    IF Len(ft) < 2 THEN <<0, 1>>
    ELSE IF ft[Len(ft)] - ft[1] <= 0 THEN <<0, 1>>
    ELSE <<Len(ft) - 1, ft[Len(ft)] - ft[1]>>

\* update_fps recording a frame only while self.monitoring is set.
UpdateGated(m) == m

\* update_fps does not read self.monitoring: it records whatever the flag is.
UpdateRecords(m) == TRUE

\* record_detection_time counting a detection twice.
DetectionTwice(n) == n + 2

\* self.detection_count += 1
DetectionRecorded(n) == n + 1

\* reset_stats leaving the window as it is.
ResetTimesKept(ft) == ft

\* self.frame_times.clear()
ResetTimes(ft) == <<>>

\* start_monitoring
StartMonitoring ==
    /\ monitoring' = TRUE
    /\ fps' = <<0, 0>>
    /\ UNCHANGED <<frame_times, frame_count, detection_count, lock, spc, now,
                   spacing, times_log, nrecords>>

\* stop_monitoring
StopMonitoring ==
    /\ monitoring' = FALSE
    /\ fps' = <<0, 0>>
    /\ UNCHANGED <<frame_times, frame_count, detection_count, lock, spc, now,
                   spacing, times_log, nrecords>>

\* update_fps: current_time = time.time(); with self.lock: append, count, trim
UpdateFps ==
    /\ lock = "free"
    /\ nrecords < MaxRecords
    /\ UpdateRecords(monitoring)
    /\ frame_times' = Window(frame_times, now)
    /\ frame_count' = frame_count + 1
    /\ times_log' = Append(times_log, now)
    /\ now' = now + spacing
    /\ nrecords' = nrecords + 1
    /\ fps' = <<0, 0>>
    /\ UNCHANGED <<detection_count, monitoring, lock, spc, spacing>>

\* record_detection_time: with self.lock: self.detection_count += 1
RecordDetection ==
    /\ lock = "free"
    /\ detection_count < MaxDetections
    /\ detection_count' = DetectionRecorded(detection_count)
    /\ fps' = <<0, 0>>
    /\ UNCHANGED <<frame_times, frame_count, monitoring, lock, spc, now, spacing,
                   times_log, nrecords>>

\* get_current_fps, called on its own
GetCurrentFps ==
    /\ lock = "free"
    /\ fps' = CurrentFps(frame_times)
    /\ UNCHANGED <<frame_times, frame_count, detection_count, monitoring, lock,
                   spc, now, spacing, times_log, nrecords>>

\* get_performance_summary: with self.lock: fps = self.get_current_fps().
\* The caller takes the lock and get_current_fps then waits for the same
\* lock; threading.Lock is not reentrant, so the wait has no end and the
\* lock stays held.
SummaryEnter ==
    /\ lock = "free"
    /\ spc = "idle"
    /\ lock' = "held"
    /\ spc' = "fps_wait"
    /\ fps' = <<0, 0>>
    /\ UNCHANGED <<frame_times, frame_count, detection_count, monitoring, now,
                   spacing, times_log, nrecords>>

\* reset_stats: with self.lock: clear the window, zero both counters
ResetStats ==
    /\ lock = "free"
    /\ frame_times' = ResetTimes(frame_times)
    /\ frame_count' = 0
    /\ detection_count' = 0
    /\ times_log' = <<>>
    /\ fps' = <<0, 0>>
    /\ UNCHANGED <<monitoring, lock, spc, now, spacing, nrecords>>

\* ---------------------------------------------------------- Next
\* ---------------------------------------------------------------------
\* ROISelector (src/core/camera.py)
\* ---------------------------------------------------------------------

\* Pointer coordinates are drawn from 0..MaxCoord on both axes.
MaxCoord == 2

Points == (0..MaxCoord) \X (0..MaxCoord)

Abs(n) == IF n < 0 THEN -n ELSE n

\* Variant: width and height are the signed differences.
RegionSigned(p, q) == <<Min({p[1], q[1]}), Min({p[2], q[2]}), q[1] - p[1], q[2] - p[2]>>

\* mouse_callback, EVENT_LBUTTONUP: roi = (min(x1, x2), min(y1, y2), abs(x2 - x1), abs(y2 - y1))
Region(p, q) == <<Min({p[1], q[1]}), Min({p[2], q[2]}), Abs(q[1] - p[1]), Abs(q[2] - p[2])>>

\* mouse_callback, EVENT_LBUTTONDOWN
MouseDown(p) ==
    /\ start_point' = p
    /\ selecting' = TRUE
    /\ last_button' = "down"
    /\ moved' = FALSE
    /\ UNCHANGED <<end_point, sel_roi>>

\* mouse_callback, EVENT_MOUSEMOVE: acts only while selecting
MouseMoveAlways(p) ==
    /\ end_point' = p
    /\ moved' = TRUE
    /\ UNCHANGED <<start_point, selecting, sel_roi, last_button>>

MouseMove(p) ==
    /\ end_point' = (IF selecting THEN p ELSE end_point)
    /\ moved' = TRUE
    /\ UNCHANGED <<start_point, selecting, sel_roi, last_button>>

\* mouse_callback, EVENT_LBUTTONUP: a tuple is truthy whatever its
\* coordinates, so the region is computed whenever start_point is not None.
MouseUpStaysSelecting(p) ==
    /\ end_point' = p
    /\ sel_roi' = (IF start_point # <<>> THEN Region(start_point, p) ELSE sel_roi)
    /\ last_button' = "up"
    /\ moved' = FALSE
    /\ UNCHANGED <<start_point, selecting>>

MouseUp(p) ==
    /\ end_point' = p
    /\ selecting' = FALSE
    /\ sel_roi' = (IF start_point # <<>> THEN Region(start_point, p) ELSE sel_roi)
    /\ last_button' = "up"
    /\ moved' = FALSE
    /\ UNCHANGED start_point

\* ROISelector.get_roi
GetRoi == sel_roi

\* ROISelector.reset
RoiResetKeepsRegion ==
    /\ start_point' = <<>>
    /\ end_point' = <<>>
    /\ selecting' = FALSE
    /\ last_button' = "reset"
    /\ moved' = FALSE
    /\ UNCHANGED sel_roi

RoiReset ==
    /\ start_point' = <<>>
    /\ end_point' = <<>>
    /\ selecting' = FALSE
    /\ sel_roi' = <<>>
    /\ last_button' = "reset"
    /\ moved' = FALSE


\* ---------------------------------------------------------------------
\* ResultExporter (src/core/exporter.py)
\* ---------------------------------------------------------------------

\* Results in one add_results call.
MaxBatch == 2

\* The results given to add_results; only their data is read.
ExpResults == {[data |-> d, type |-> "QRCODE"] : d \in {"a", "b", "c"}}
ExpBatches == SeqsUpTo(ExpResults, MaxBatch)

\* any(r['data'] == d for r in self.results_history)
Stored(h, d) == \E i \in DOMAIN h : h[i].data = d

\* The loop of add_results appending every result.
RECURSIVE AddAllUnchecked(_, _)
AddAllUnchecked(h, b) ==
    IF b = <<>> THEN h
    ELSE AddAllUnchecked(Append(h, [data |-> Head(b).data]), Tail(b))

\* The loop of add_results: a result is appended as {'data': result.data}
\* unless its data is already stored.
RECURSIVE AddAll(_, _)
AddAll(h, b) ==
    IF b = <<>> THEN h
    ELSE AddAll(IF Stored(h, Head(b).data) THEN h ELSE Append(h, [data |-> Head(b).data]),
                Tail(b))

\* add_results(results, source, timestamp); source and timestamp are not read.
AddResults(b) ==
    /\ \A t \in Callers : apc[t] = "idle"
    /\ results_history' = AddAll(results_history, b)
    /\ added' = b
    /\ UNCHANGED <<todo, apc>>

\* add_results step by step, as one of two threads runs it.
\* The call: save_to_excel returns before it on an empty list.
AddBegin(t, b) ==
    /\ apc[t] = "idle"
    /\ b # <<>>
    /\ todo' = [todo EXCEPT ![t] = b]
    /\ apc' = [apc EXCEPT ![t] = "check"]
    /\ UNCHANGED <<results_history, added>>

\* Where the loop of add_results goes after the result at hand.
AddNext(rest) == IF rest = <<>> THEN "idle" ELSE "check"

\* if not any(r['data'] == result.data for r in self.results_history):
AddCheck(t) ==
    /\ apc[t] = "check"
    /\ IF Stored(results_history, Head(todo[t]).data)
       THEN /\ todo' = [todo EXCEPT ![t] = Tail(todo[t])]
            /\ apc' = [apc EXCEPT ![t] = AddNext(Tail(todo[t]))]
       ELSE /\ apc' = [apc EXCEPT ![t] = "append"]
            /\ UNCHANGED todo
    /\ UNCHANGED <<results_history, added>>

\* self.results_history.append({'data': result.data})
AddAppend(t) ==
    /\ apc[t] = "append"
    /\ results_history' = Append(results_history, [data |-> Head(todo[t]).data])
    /\ todo' = [todo EXCEPT ![t] = Tail(todo[t])]
    /\ apc' = [apc EXCEPT ![t] = AddNext(Tail(todo[t]))]
    /\ UNCHANGED added

\* ResultExporter.clear_history
ExpClearHistory ==
    /\ results_history' = <<>>
    /\ UNCHANGED <<added, todo, apc>>

NextExp ==
    \/ (\E b \in ExpBatches : AddResults(b)) /\ UNCHANGED <<camVars, detVars, monVars, roiVars, guiVars>>
    \/ ExpClearHistory /\ UNCHANGED <<camVars, detVars, monVars, roiVars, guiVars>>

SpecExp == Init /\ [][NextExp]_vars

NextSink ==
    \/ (\E t \in Callers, b \in ExpBatches : AddBegin(t, b)) /\ UNCHANGED <<camVars, detVars, monVars, roiVars, guiVars>>
    \/ (\E t \in Callers : AddCheck(t)) /\ UNCHANGED <<camVars, detVars, monVars, roiVars, guiVars>>
    \/ (\E t \in Callers : AddAppend(t)) /\ UNCHANGED <<camVars, detVars, monVars, roiVars, guiVars>>

SpecSink == Init /\ [][NextSink]_vars


NextGui ==
    \/ RefreshBegin /\ UNCHANGED <<camVars, detVars, monVars, roiVars, expVars>>
    \/ (\E cameras \in BOOLEAN : RefreshEnd(cameras)) /\ UNCHANGED <<camVars, detVars, monVars, roiVars, expVars>>
    \/ (BagCardinality(loops) < MaxThreads /\ StartCameraProbe) /\ UNCHANGED <<camVars, detVars, monVars, roiVars, expVars>>
    \/ (\E cameras \in BOOLEAN : StartCameraSelect(cameras)) /\ UNCHANGED <<camVars, detVars, monVars, roiVars, expVars>>
    \/ (\E d \in DevInit : StartCameraInit(d)) /\ UNCHANGED <<detVars, monVars, roiVars, expVars>>
    \/ StartCameraCapture /\ UNCHANGED <<detVars, monVars, roiVars, expVars>>
    \/ StopCameraFlag /\ UNCHANGED <<detVars, monVars, roiVars, expVars>>
    \/ StopCameraRelease /\ UNCHANGED <<detVars, monVars, roiVars, expVars>>
    \/ (\E th \in Created : LoopCheck(th)) /\ UNCHANGED <<detVars, monVars, roiVars, expVars, guiVars>>
    \/ (\E th \in Created, d \in DevRead : Read(th, d)) /\ UNCHANGED <<detVars, monVars, roiVars, expVars, guiVars>>
    \/ (\E th \in Created : FullCheck(th)) /\ UNCHANGED <<detVars, monVars, roiVars, expVars, guiVars>>
    \/ (\E th \in Created : Evict(th)) /\ UNCHANGED <<detVars, monVars, roiVars, expVars, guiVars>>
    \/ (\E th \in Created : Put(th)) /\ UNCHANGED <<detVars, monVars, roiVars, expVars, guiVars>>
    \/ (\E th \in Created, r \in CallbackOutcomes : Callback(th, r)) /\ UNCHANGED <<detVars, monVars, roiVars, expVars, guiVars>>

SpecGui == Init /\ [][NextGui]_vars

Next ==
    \/ (\E d \in DevInit : InitializeCamera(d)) /\ UNCHANGED <<detVars, monVars, roiVars, expVars, guiVars>>
    \/ (\E d \in DevInit \cup {"unused"} : StartCapture(d)) /\ UNCHANGED <<detVars, monVars, roiVars, expVars, guiVars>>
    \/ StopFlag /\ UNCHANGED <<detVars, monVars, roiVars, expVars, guiVars>>
    \/ StopRelease /\ UNCHANGED <<detVars, monVars, roiVars, expVars, guiVars>>
    \/ (\E th \in Created : LoopCheck(th)) /\ UNCHANGED <<detVars, monVars, roiVars, expVars, guiVars>>
    \/ (\E th \in Created, d \in DevRead : Read(th, d)) /\ UNCHANGED <<detVars, monVars, roiVars, expVars, guiVars>>
    \/ (\E th \in Created : FullCheck(th)) /\ UNCHANGED <<detVars, monVars, roiVars, expVars, guiVars>>
    \/ (\E th \in Created : Evict(th)) /\ UNCHANGED <<detVars, monVars, roiVars, expVars, guiVars>>
    \/ (\E th \in Created : Put(th)) /\ UNCHANGED <<detVars, monVars, roiVars, expVars, guiVars>>
    \/ (\E th \in Created, r \in CallbackOutcomes : Callback(th, r)) /\ UNCHANGED <<detVars, monVars, roiVars, expVars, guiVars>>
    \/ GetLatestFrame /\ UNCHANGED <<detVars, monVars, roiVars, expVars, guiVars>>
    \/ GetFrameBlocking /\ UNCHANGED <<detVars, monVars, roiVars, expVars, guiVars>>
    \/ GetFrameBlockingEnd /\ UNCHANGED <<detVars, monVars, roiVars, expVars, guiVars>>

Spec == Init /\ [][Next]_vars

NextDet ==
    \/ (\E r \in Rois : ncalls < MaxCalls /\ DetectBegin(r)) /\ UNCHANGED <<camVars, monVars, roiVars, expVars, guiVars>>
    \/ (\E out \in PrimaryOuts : QRStep(out)) /\ UNCHANGED <<camVars, monVars, roiVars, expVars, guiVars>>
    \/ (\E out \in MultiOuts : MultiStep(out)) /\ UNCHANGED <<camVars, monVars, roiVars, expVars, guiVars>>
    \/ (\E out \in BarcodeOuts : BarcodeStep(out)) /\ UNCHANGED <<camVars, monVars, roiVars, expVars, guiVars>>
    \/ ClearHistory /\ UNCHANGED <<camVars, monVars, roiVars, expVars, guiVars>>

SpecDet == Init /\ [][NextDet]_vars

\* detect_codes calls in one run of SpecHist.
MaxHistCalls == 2

\* Decoder outputs of the runs with several calls: the primary decoder finds
\* "a" or nothing or raises, the multi decoder finds "b" or fails, pyzbar
\* finds "a", "c", both, or is missing.
HistPrimaryOuts == {out \in PrimaryOuts : out.data \in {"", "a"} /\ (out.data = "a" <=> out.points # <<>>)}
HistMultiOuts == {out \in MultiOuts : out.st \in {"fail", "ok"} /\ \A i \in DOMAIN out.syms : i = 1 /\ out.syms[i].data = "b"}
HistBarcodeOuts == {out \in BarcodeOuts : out.st \in {"missing", "ok"} /\ \A i \in DOMAIN out.syms : out.syms[i].data = (IF i = 1 THEN "a" ELSE "c")}

NextHist ==
    \/ (ncalls < MaxHistCalls /\ DetectBegin(<<>>)) /\ UNCHANGED <<camVars, monVars, roiVars, expVars, guiVars>>
    \/ (\E out \in HistPrimaryOuts : QRStep(out)) /\ UNCHANGED <<camVars, monVars, roiVars, expVars, guiVars>>
    \/ (\E out \in HistMultiOuts : MultiStep(out)) /\ UNCHANGED <<camVars, monVars, roiVars, expVars, guiVars>>
    \/ (\E out \in HistBarcodeOuts : BarcodeStep(out)) /\ UNCHANGED <<camVars, monVars, roiVars, expVars, guiVars>>
    \/ ClearHistory /\ UNCHANGED <<camVars, monVars, roiVars, expVars, guiVars>>
    \/ GetDetectionStatistics /\ UNCHANGED <<camVars, monVars, roiVars, expVars, guiVars>>

SpecHist == Init /\ [][NextHist]_vars

\* One call after the other with the clock moving, on the decoder outputs
\* of SpecHist.
NextLat ==
    \/ (ncalls < MaxCalls /\ DetectBegin(<<>>)) /\ UNCHANGED <<camVars, monVars, roiVars, expVars, guiVars>>
    \/ (\E out \in HistPrimaryOuts : QRStep(out)) /\ UNCHANGED <<camVars, monVars, roiVars, expVars, guiVars>>
    \/ (\E out \in HistMultiOuts : MultiStep(out)) /\ UNCHANGED <<camVars, monVars, roiVars, expVars, guiVars>>
    \/ (\E out \in HistBarcodeOuts : BarcodeStep(out)) /\ UNCHANGED <<camVars, monVars, roiVars, expVars, guiVars>>
    \/ Tick /\ UNCHANGED <<camVars, monVars, roiVars, expVars, guiVars>>

InitLat == InitCam /\ InitMon /\ InitRoi /\ InitExp /\ InitGui /\ DetStart /\ rate \in Rates

SpecLat == InitLat /\ [][NextLat]_vars

NextMon ==
    \/ StartMonitoring /\ UNCHANGED <<camVars, detVars, roiVars, expVars, guiVars>>
    \/ StopMonitoring /\ UNCHANGED <<camVars, detVars, roiVars, expVars, guiVars>>
    \/ UpdateFps /\ UNCHANGED <<camVars, detVars, roiVars, expVars, guiVars>>
    \/ RecordDetection /\ UNCHANGED <<camVars, detVars, roiVars, expVars, guiVars>>
    \/ GetCurrentFps /\ UNCHANGED <<camVars, detVars, roiVars, expVars, guiVars>>
    \/ SummaryEnter /\ UNCHANGED <<camVars, detVars, roiVars, expVars, guiVars>>
    \/ ResetStats /\ UNCHANGED <<camVars, detVars, roiVars, expVars, guiVars>>

\* The monitor under every clock spacing.
InitAnySpacing == InitCam /\ InitDet /\ InitRoi /\ InitExp /\ InitGui /\ MonStart /\ spacing \in Spacings

SpecMon == InitAnySpacing /\ [][NextMon]_vars

NextRoi ==
    \/ \E p \in Points : MouseDown(p) /\ UNCHANGED <<camVars, detVars, monVars, expVars, guiVars>>
    \/ \E p \in Points : MouseMove(p) /\ UNCHANGED <<camVars, detVars, monVars, expVars, guiVars>>
    \/ \E p \in Points : MouseUp(p) /\ UNCHANGED <<camVars, detVars, monVars, expVars, guiVars>>
    \/ RoiReset /\ UNCHANGED <<camVars, detVars, monVars, expVars, guiVars>>

SpecRoi == Init /\ [][NextRoi]_vars

\* ------------------------------------------------------------ claims
NoPushInProgress == ~\E th \in Created : InPush(th)

\* C1: in every reachable state, under any interleaving of the loop's pushes
\* with the consumer's gets, the frame queue holds at most 2 frames.
C1_QueueBounded == Len(frame_queue) <= QueueMaxSize

\* A push of a third or later frame has completed and the queue holds 2 frames.
C1_Witness ==
    /\ Len(frame_queue) = QueueMaxSize
    /\ \E th \in Created : th.pc = "callback" /\ th.frame > QueueMaxSize

\* C2: after n >= 2 pushes with no get in between, successive gets return
\* the last two pushed frames, older first, and then None (the pushes are
\* push steps run one after the other, each putting its frame).
C2_LastTwoThenEmpty ==
    Len(pushLog) >= QueueMaxSize =>
        LET older == pushLog[Len(pushLog) - 1]
            newer == pushLog[Len(pushLog)]
        IN  /\ (npops = 0 /\ NoPushInProgress) => frame_queue = <<older, newer>>
            /\ npops = 1 => popped = older
            /\ npops = 2 => popped = newer
            /\ npops = 3 => popped = 0

\* Three frames were pushed in a row, then three gets were made.
C2_Witness == Len(pushLog) = QueueMaxSize + 1 /\ npops = QueueMaxSize + 1
\* C3: the push step always ends with the newly read frame in the queue.
C3_PushAlwaysInserts ==
    [][\A th \in Created : Put(th) => th.frame \in Range(frame_queue')]_vars

\* C4: the batch detect_codes returns (and the list it builds at every step)
\* holds no two results with the same payload, whichever back-ends report it.
C4_BatchPayloadUnique ==
    /\ \A i, j \in DOMAIN batch : batch[i].data = batch[j].data => i = j
    /\ \A i, j \in DOMAIN found : found[i].res.data = found[j].res.data => i = j

\* A call has returned a batch of one result, made by the primary pass, for
\* a payload that the multi pass and the barcode pass reported again.
C4_Witness ==
    /\ dpc = "idle"
    /\ Len(batch) = 1
    /\ found[1].raw.polygon = PolyA
    /\ dups.multi > 0
    /\ dups.barcode > 0

\* C5: with a region given, the rect and every polygon point of every
\* returned result are the decoder's coordinates plus the region origin.
C5_RegionOffsetApplied ==
    (dpc = "idle" /\ roi # <<>>) =>
        \A i \in DOMAIN found :
            /\ batch[i] = found[i].res
            /\ found[i].res.polygon = Shift(found[i].raw.polygon, RoiOffset(roi))
            /\ found[i].res.rect = ShiftRect(found[i].raw.rect, RoiOffset(roi))

\* C6: at most one capture thread of the CameraManager is alive at any time.
C6_OneLoop == NAlive <= 1

\* C7: once the loop has ended on a failed read (no other loop running),
\* is_camera_active() is false.
C7_DeadLoopObservable ==
    (Alive = {} /\ \E th \in Created : th.pc = "broken") => ~IsCameraActive

\* C8: after initialize_camera has returned False the device is released
\* and the component is not Initialized (self.cap is not an opened device).
C8_FailedInitReleases ==
    (lastOp = "initialize_camera" /\ ret = "False") => cap # "open"

\* C9 as stated: no CameraManager call ever raises on a device failure.
C9_NeverRaises == ret # "raised"

\* C9 amended: initialize_camera returns True or False for every device
\* behaviour, a failed read only ends the loop that made it, and start_capture
\* raises exactly when the device is not open and initializing it fails.
C9_OnlyStartRaises ==
    [][/\ \A d \in DevInit : InitializeCamera(d) => ret' = (IF d = "ok" THEN "True" ELSE "False")
       /\ \A d \in DevInit \cup {"unused"} :
            StartCapture(d) => (ret' = "raised" <=> (cap # "open" /\ d # "ok"))
       /\ \A th \in Created, d \in DevRead :
            (Read(th, d) /\ ReadOutcome(cap, d) # "frame")
                => /\ loops' = Moved(th, Thread("broken", 0))
                   /\ UNCHANGED <<cap, is_running, frame_queue, ret, lastOp>>
       /\ ret' = "raised" => lastOp' = "start_capture"]_vars

\* start_capture has raised on a device that failed to initialize.
C9_Witness == lastOp = "start_capture" /\ ret = "raised" /\ cap # "open"

\* C10: every stop_capture returns normally with the running flag false and
\* no device handle, and a stop_capture that follows a stop_capture (or is
\* made on a never used component) changes nothing of the component.
C10_StopIdempotent ==
    [][/\ StopRelease => (ret' = "None" /\ ~is_running' /\ cap' = "None")
       /\ (lastOp \in {"stop_capture", "none"} /\ (StopFlag \/ StopRelease))
            => UNCHANGED <<is_running, cap, capture_thread, frame_queue, loops, nframes>>]_vars

\* A second stop_capture is under way on a component that had been started.
C10_Witness == lastOp = "stop_capture" /\ mpc = "join" /\ capture_thread

\* C11: stop_capture sets the stop flag, waits for the capture thread no
\* longer than the join timeout and always completes: whether or not the
\* capture threads have ended, it returns with the device released and
\* self.cap cleared.
C11_StopCompletes ==
    [][/\ StopFlag => ~is_running'
       /\ mpc = "join" => ENABLED StopRelease
       /\ StopRelease => (cap' = "None" /\ mpc' = "idle" /\ lastOp' = "stop_capture"
                          /\ loops' = loops)]_vars

\* stop_capture has returned, the device is released and cleared, and a
\* capture thread is still inside a read or inside the callback.
C11_Witness ==
    /\ lastOp = "stop_capture"
    /\ mpc = "idle"
    /\ cap = "None"
    /\ ~is_running
    /\ \E th \in Alive : th.pc \in {"read", "callback"}

\* C12: a callback that raises does not end the loop and nothing is
\* propagated: the thread goes back to the head of the loop, alive, and
\* neither the running flag, the device, the queue nor the result of any
\* CameraManager call changes.
C12_CallbackErrorCaught ==
    [][\A th \in Created :
         Callback(th, "raise") =>
            /\ loops' = Moved(th, Thread("loop", 0))
            /\ ~Dead(Thread("loop", 0))
            /\ UNCHANGED <<is_running, cap, frame_queue, ret, lastOp, nframes>>]_vars

\* The callback of the only capture thread has raised on a frame, and the
\* thread has since read and pushed the next frame and is delivering it.
C12_Witness ==
    /\ cb_raised
    /\ BagCardinality(loops) = 1
    /\ \E th \in Created : th.pc = "callback" /\ th.frame >= 2

Entered(th) == CopiesIn(th, loops') > CopiesIn(th, loops)
Left(p, f) == CopiesIn(Thread(p, f), loops') < CopiesIn(Thread(p, f), loops)
Holding(f) == {th \in Created : th.frame = f}

C14_SnapshotReturns == ~(spc = "fps_wait" /\ lock = "held")

\* C15: after n update_fps calls since construction or the last reset_stats
\* the window holds the last min(n, 60) recorded timestamps in order, never
\* more than 60, and frame_count is n.
C15_RollingWindow ==
    /\ Len(frame_times) <= WindowCap
    /\ frame_count = Len(times_log)
    /\ Len(frame_times) = (IF frame_count < WindowCap THEN frame_count ELSE WindowCap)
    /\ \A i \in DOMAIN frame_times :
          frame_times[i] = times_log[Len(times_log) - Len(frame_times) + i]

\* More than 60 frames have been recorded and the window holds 60.
C15_Witness == frame_count > WindowCap /\ Len(frame_times) = WindowCap

\* C16 as stated: with 2 or more samples get_current_fps returns
\* (count - 1) / (newest - oldest), and 0 with fewer.
C16_FpsOverWindow ==
    fps # <<0, 0>> =>
        IF Len(frame_times) >= 2
        THEN /\ fps[2] # 0
             /\ fps[1] * (frame_times[Len(frame_times)] - frame_times[1])
                    = (Len(frame_times) - 1) * fps[2]
        ELSE fps[1] = 0 /\ fps[2] # 0

\* C16 amended: with 2 or more samples and newest > oldest get_current_fps
\* returns (count - 1) / (newest - oldest); with fewer than 2 samples, or
\* with newest <= oldest, it returns 0; 60 samples at a fixed spacing d > 0
\* give 1 / d.
C16_FpsPositiveSpan ==
    fps # <<0, 0>> =>
        /\ fps[2] > 0
        /\ IF Len(frame_times) >= 2 /\ frame_times[Len(frame_times)] > frame_times[1]
           THEN fps[1] * (frame_times[Len(frame_times)] - frame_times[1])
                    = (Len(frame_times) - 1) * fps[2]
           ELSE fps[1] = 0
        /\ (Len(frame_times) = WindowCap /\ spacing > 0) => fps[1] * spacing = fps[2]

\* get_current_fps has returned 1 per clock unit on a window of 60 samples
\* spaced by 1.
C16_Witness ==
    /\ fps # <<0, 0>>
    /\ Len(frame_times) = WindowCap
    /\ spacing = 1
    /\ fps[1] = fps[2]

\* C17: record_detection_time adds exactly one to detection_count and leaves
\* the window, frame_count and the value of get_current_fps as they were.
C17_DetectionOnlyCounts ==
    [][RecordDetection =>
        /\ detection_count' = detection_count + 1
        /\ UNCHANGED <<frame_times, frame_count, monitoring>>
        /\ CurrentFps(frame_times') = CurrentFps(frame_times)]_vars

\* A detection has been recorded on a monitor whose window gives a rate.
C17_Witness == detection_count > 0 /\ CurrentFps(frame_times)[1] > 0

\* C18: reset_stats, from any state, empties the window, zeroes both
\* counters (get_current_fps gives 0) and leaves the monitoring flag.
C18_ResetClears ==
    [][ResetStats =>
        /\ frame_times' = <<>>
        /\ frame_count' = 0
        /\ detection_count' = 0
        /\ CurrentFps(frame_times') = <<0, 1>>
        /\ UNCHANGED monitoring]_vars

\* The monitor has been reset after frames were recorded, with the
\* monitoring flag set.
C18_Witness ==
    /\ nrecords > 1
    /\ frame_times = <<>>
    /\ frame_count = 0
    /\ detection_count = 0
    /\ monitoring

\* C19: start_monitoring and stop_monitoring change the flag only, and
\* update_fps, record_detection_time and get_current_fps can be called and
\* do the same whether the flag is set or not.
C19_FlagAdvisory ==
    [][/\ (StartMonitoring \/ StopMonitoring) =>
            UNCHANGED <<frame_times, frame_count, detection_count, lock, times_log>>
       /\ (lock = "free" /\ nrecords < MaxRecords) => ENABLED UpdateFps
       /\ (lock = "free" /\ detection_count < MaxDetections) => ENABLED RecordDetection
       /\ lock = "free" => ENABLED GetCurrentFps
       /\ UpdateFps => /\ frame_times' = LastN(Append(frame_times, now), WindowCap)
                       /\ frame_count' = frame_count + 1
                       /\ UNCHANGED <<detection_count, monitoring>>
       /\ RecordDetection => /\ detection_count' = detection_count + 1
                             /\ UNCHANGED monitoring
       /\ GetCurrentFps => /\ fps' = CurrentFps(frame_times)
                           /\ UNCHANGED monitoring]_vars

\* Frames and a detection have been recorded and a rate has been returned
\* with the flag off.
C19_Witness ==
    /\ ~monitoring
    /\ frame_count >= 2
    /\ detection_count > 0
    /\ fps # <<0, 0>>
    /\ fps[1] > 0

\* C20: a pointer-up that follows a pointer-down at (x1, y1) and is given
\* (x2, y2) commits (min(x1,x2), min(y1,y2), |x2-x1|, |y2-y1|): width and
\* height are never negative, and the drag from p to q commits the same
\* region as the drag from q to p.
C20_RegionNormalised ==
    [][\A q \in Points : (selecting /\ MouseUp(q)) =>
          LET x1 == start_point[1]  y1 == start_point[2]
              x2 == q[1]            y2 == q[2]
          IN /\ GetRoi' = << IF x1 < x2 THEN x1 ELSE x2,
                             IF y1 < y2 THEN y1 ELSE y2,
                             IF x2 < x1 THEN x1 - x2 ELSE x2 - x1,
                             IF y2 < y1 THEN y1 - y2 ELSE y2 - y1 >>
             /\ GetRoi'[3] >= 0 /\ GetRoi'[4] >= 0
             /\ GetRoi' = Region(q, start_point)]_vars

\* A drag up and to the left has been committed.
C20_Witness ==
    /\ ~selecting
    /\ start_point # <<>> /\ end_point # <<>> /\ sel_roi # <<>>
    /\ start_point[1] > end_point[1] /\ start_point[2] > end_point[2]
    /\ sel_roi = <<end_point[1], end_point[2],
                   start_point[1] - end_point[1], start_point[2] - end_point[2]>>

\* C21: the selector is Idle at construction, a pointer-down records the
\* anchor and enters Dragging, a pointer-up and a reset return to Idle, a
\* move changes neither; so the selector is in Dragging exactly when the
\* last pointer-down has not been followed by a pointer-up or a reset.
C21_IdleDraggingIdle ==
    /\ selecting <=> last_button = "down"
    /\ last_button = "down" => start_point # <<>>
    /\ last_button \in {"none", "reset"} => start_point = <<>>

\* A second drag is in progress after an earlier one was committed.
C21_Witness ==
    /\ selecting
    /\ last_button = "down"
    /\ moved
    /\ sel_roi # <<>>

\* C22: a pointer-move in Dragging updates the live end point only and
\* leaves the committed region; a pointer-move in Idle changes nothing of
\* the selector.
C22_MoveOnlyLivePoint ==
    [][\A p \in Points : MouseMove(p) =>
          /\ UNCHANGED <<start_point, selecting, sel_roi>>
          /\ GetRoi' = GetRoi
          /\ selecting => end_point' = p
          /\ ~selecting => end_point' = end_point]_vars

\* A move has set the live end point during a first drag, with no region
\* committed.
C22_Witness ==
    /\ selecting
    /\ moved
    /\ end_point # <<>>
    /\ end_point # start_point
    /\ sel_roi = <<>>

\* C23: reset, from any state, leaves the selector Idle with no anchor, no
\* live end point and no committed region.
C23_ResetClearsAll ==
    /\ [][RoiReset => /\ ~selecting'
                      /\ start_point' = <<>>
                      /\ end_point' = <<>>
                      /\ GetRoi' = <<>>]_vars
    /\ [](last_button = "reset" => (~selecting /\ start_point = <<>> /\ sel_roi = <<>>))

\* The selector has been reset and has then received a move.
C23_Witness ==
    /\ last_button = "reset"
    /\ moved
    /\ ~selecting
    /\ start_point = <<>> /\ end_point = <<>> /\ sel_roi = <<>>

\* h is an initial part of g.
IsPrefix(h, g) == Len(h) <= Len(g) /\ SubSeq(g, 1, Len(h)) = h

\* A step of the detect_codes call at position p (clear_history, which a
\* caller may run at any time, leaves the position).
PassStep(p) == dpc = p /\ dpc' # p

\* The entries of f after the first n.
Added(f, n) == SubSeq(f, n + 1, Len(f))

\* The position of the first report of payload d in syms.
FirstReport(syms, d) == Min({j \in DOMAIN syms : syms[j].data = d})

\* The entries a pass added are, in the order of their first report, the
\* payloads of its reports that are not blank and were not already in the
\* list, each the entry built[j] made from its first report syms[j].
AddedInPassOrder(before, after, syms, built) ==
    LET new == Added(after, Len(before))
    IN  /\ SubSeq(after, 1, Len(before)) = before
        /\ \A i \in DOMAIN new :
              /\ ~HasData(before, new[i].res.data)
              /\ \E j \in DOMAIN syms : syms[j].data = new[i].res.data
              /\ new[i] = built[FirstReport(syms, new[i].res.data)]
              /\ \A k \in DOMAIN new : k < i =>
                    FirstReport(syms, new[k].res.data) < FirstReport(syms, new[i].res.data)
        /\ \A j \in DOMAIN syms : Strip(syms[j].data) # "" => HasData(after, syms[j].data)

C25_HistoryAppendOnly ==
    [][/\ (\E out \in BarcodeOuts : BarcodeStep(out)) =>
             detection_history' = detection_history \o batch'
       /\ ClearHistory => detection_history' = <<>>
       /\ ~ClearHistory => IsPrefix(detection_history, detection_history')]_vars

\* Calls have left the same payload twice in the history.
C25_Witness ==
    /\ ncalls = MaxHistCalls
    /\ dpc = "idle"
    /\ Len(detection_history) > Len(batch)
    /\ batch # <<>>
    /\ \E i \in DOMAIN detection_history :
          /\ i <= Len(detection_history) - Len(batch)
          /\ detection_history[i].data = batch[1].data

\* C26: an error of a decode back-end is caught inside the call: at each
\* decoder a raise (or pyzbar not installed) is a step of the call, which goes on,
\* keeps the results it had, returns them with the results of the other
\* back-end and appends them to the history; it never leaves by an error.
C26_BackendErrorCaught ==
    /\ [](/\ dpc \in {"idle", "qr", "multi", "barcode"}
          /\ dpc = "qr" => ENABLED (\E out \in PrimaryOuts : out.st = "exc" /\ QRStep(out))
          /\ dpc = "multi" => ENABLED (\E out \in MultiOuts : out.st = "exc" /\ MultiStep(out))
          /\ dpc = "barcode" =>
                /\ ENABLED (\E out \in BarcodeOuts : out.st = "exc" /\ BarcodeStep(out))
                /\ ENABLED (\E out \in BarcodeOuts : out.st = "missing" /\ BarcodeStep(out)))
    /\ [][/\ PassStep("qr") =>
                /\ dpc' \in {"multi", "barcode"}
                /\ caught' # caught => (dpc' = "barcode" /\ found' = found)
          /\ PassStep("multi") => (dpc' = "barcode" /\ IsPrefix(found, found'))
          /\ PassStep("barcode") =>
                /\ dpc' = "idle"
                /\ IsPrefix(found, found')
                /\ "import" \in caught' => found' = found
                /\ batch' = Results(found')
                /\ detection_history' = detection_history \o batch'
          /\ (PassStep("barcode") /\ found = <<>>) =>
                \A out \in BarcodeOuts : BarcodeStep(out) =>
                    \A j \in DOMAIN out.syms : \E i \in DOMAIN batch' :
                        batch'[i].data = out.syms[j].data]_vars

\* The QR decoder raised and the call returned what pyzbar found, appended
\* to the history.
C26_Witness ==
    /\ dpc = "idle"
    /\ caught = {"qr"}
    /\ batch # <<>>
    /\ batch[1].type = "EAN13"
    /\ detection_history = batch

\* The sum of the values of f.
RECURSIVE SumOf(_)
SumOf(f) ==
    IF DOMAIN f = {} THEN 0
    ELSE LET t == CHOOSE x \in DOMAIN f : TRUE
         IN  f[t] + SumOf([x \in DOMAIN f \ {t} |-> f[x]])

\* st is the summary of history h: total 0 and nothing else when h is
\* empty, else the length of h with per-type counts that sum to it.
SummaryOf(st, h) ==
    /\ st.total_detections = Len(h)
    /\ h = <<>> => st = [total_detections |-> 0]
    /\ h # <<>> => /\ SumOf(st.code_types) = st.total_detections
                   /\ \A i \in DOMAIN h : h[i].type \in DOMAIN st.code_types

\* C27: get_detection_statistics can be called in every state and returns:
\* on an empty history total 0, and after any detect_codes and
\* clear_history calls a total equal to the length of the history with
\* per-type counts that sum to the total.
C27_StatisticsTotal ==
    /\ [](ENABLED GetDetectionStatistics /\ SummaryOf(Statistics(detection_history), detection_history))
    /\ [][GetDetectionStatistics => SummaryOf(stats', detection_history)]_vars

\* The summary of a history of two types, one of them twice.
C27_Witness ==
    /\ stats # <<>>
    /\ stats.total_detections = Len(detection_history)
    /\ stats.total_detections >= 3
    /\ DOMAIN stats.code_types = {"QRCODE", "EAN13"}
    /\ stats.code_types["QRCODE"] >= 2

\* C28: the detection_time of the entries of one batch, measured from the
\* start of the call on a clock that never goes back, never decreases
\* along the batch.
C28_LatencyNonDecreasing ==
    /\ Len(times) = Len(found)
    /\ \A i, j \in DOMAIN times : i < j => times[i] <= times[j]
    /\ \A i \in DOMAIN times : 0 <= times[i] /\ times[i] <= clock - start_time

\* A batch of the three passes with growing detection_time, time having
\* passed inside a decoder.
C28_Witness ==
    /\ dpc = "idle"
    /\ Len(batch) = 3
    /\ Len(times) = 3
    /\ times[1] < times[2]
    /\ times[2] < times[3]
    /\ times[3] > 3 * rate

\* C29: get_latest_frame on an empty queue returns None at once and leaves
\* the queue empty; get_frame_blocking returns None when its wait ends on an
\* empty queue; the gets can be called with 0, 1 and 2 frames queued and
\* return None or a frame, never an error.
C29_EmptyGetsReturnNone ==
    /\ [](/\ Len(frame_queue) \in 0..QueueMaxSize
          /\ popped \in {-1, 0} \cup 1..MaxFrames
          /\ cpc = "idle" => (ENABLED GetLatestFrame /\ ENABLED GetFrameBlocking)
          /\ cpc = "waiting" => ENABLED GetFrameBlockingEnd)
    /\ [][/\ (GetLatestFrame /\ frame_queue = <<>>) =>
                /\ frame_queue' = <<>>
                /\ cpc' = "idle"
                /\ GetCounts => popped' = 0
          /\ (GetFrameBlockingEnd /\ frame_queue = <<>>) =>
                /\ frame_queue' = <<>>
                /\ cpc' = "idle"
                /\ GetCounts => popped' = 0
          /\ (GetLatestFrame \/ GetFrameBlocking \/ GetFrameBlockingEnd) => ret' = ret]_vars

\* A get on the emptied queue has returned None while a blocking get waits
\* on it.
C29_Witness ==
    /\ frame_queue = <<>>
    /\ popped = 0
    /\ npops > QueueMaxSize
    /\ cpc = "waiting"

\* C30: whatever batches add_results is given, results_history never holds
\* two entries with the same data, and a batch whose payloads are all
\* stored already leaves results_history as it is.
C30_SinkDeduplicates ==
    /\ [](\A i, j \in DOMAIN results_history :
              results_history[i].data = results_history[j].data => i = j)
    /\ [][\A b \in ExpBatches : AddResults(b) =>
              /\ IsPrefix(results_history, results_history')
              /\ \A k \in DOMAIN b : Stored(results_history', b[k].data)
              /\ (\A k \in DOMAIN b : Stored(results_history, b[k].data)) =>
                    results_history' = results_history]_vars

\* All payloads are stored and the last batch gave the same payload twice.
C30_Witness ==
    /\ Len(results_history) = 3
    /\ Len(added) = 2
    /\ added[1].data = added[2].data

\* C38: a pointer-up received while the selector is Idle leaves the committed
\* region as it is, and the committed region changes only on a pointer-up in
\* Dragging or on a reset.
C38_CommitOnlyOnDragEnd ==
    [][/\ \A p \in Points : (MouseUp(p) /\ ~selecting) => GetRoi' = GetRoi
       /\ GetRoi' # GetRoi => \/ selecting /\ \E p \in Points : MouseUp(p)
                             \/ RoiReset]_vars

\* C34: get_performance_summary returns and leaves the lock free, so that
\* update_fps, record_detection_time, get_current_fps and reset_stats can
\* always take it afterwards.
C34_SnapshotReleasesLock ==
    /\ spc = "idle"
    /\ lock = "free"
    /\ ENABLED GetCurrentFps
    /\ ENABLED ResetStats
    /\ nrecords < MaxRecords => ENABLED UpdateFps
    /\ detection_count < MaxDetections => ENABLED RecordDetection

\* C32: get_latest_frame returns the most recently captured of the frames
\* held in the queue, or None when there is none.
C32_ReturnsNewest ==
    [][GetLatestFrame =>
          IF frame_queue = <<>> THEN QGot(frame_queue) = 0
          ELSE LET newest == frame_queue[Len(frame_queue)]
               IN  /\ QGot(frame_queue) = newest
                   /\ GetCounts => popped' = newest
                   /\ \A i \in DOMAIN frame_queue' : frame_queue'[i] # newest]_vars

\* C40: stop_capture leaves the frame queue as it is; the frames queued stay
\* retrievable by get_latest_frame and get_frame_blocking after it, a later
\* start_capture leaves them too, and frames captured later are put behind
\* them.
C40_StopKeepsQueue ==
    /\ []((mpc = "idle" /\ lastOp = "stop_capture" /\ cpc = "idle") =>
              (ENABLED GetLatestFrame /\ ENABLED GetFrameBlocking))
    /\ [][/\ (StopFlag \/ StopRelease) => frame_queue' = frame_queue
          /\ (\E d \in DevInit \cup {"unused"} : StartCapture(d)) => frame_queue' = frame_queue
          /\ (GetLatestFrame /\ frame_queue # <<>>) =>
                (frame_queue' = Tail(frame_queue) /\ QGot(frame_queue) = Head(frame_queue))
          /\ \A th \in Created : Put(th) => IsPrefix(frame_queue, frame_queue')]_vars

\* stop_capture has returned with two frames queued.
C40_Witness ==
    /\ mpc = "idle"
    /\ lastOp = "stop_capture"
    /\ cap = "None"
    /\ ~is_running
    /\ Len(frame_queue) = QueueMaxSize

\* C36: the push step of the loop removes a queued frame only when the
\* queue holds QueueMaxSize frames at the moment of the removal, whatever a
\* consumer does between the full() test and the get_nowait(); and it
\* removes at most one frame per push.
C36_EvictOnlyWhenFull ==
    [][\A th \in Created : Evict(th) =>
          /\ Len(frame_queue') < Len(frame_queue) => Len(frame_queue) = QueueMaxSize
          /\ Len(frame_queue') >= Len(frame_queue) - 1]_vars

\* C37: while one capture thread only has been created, every get that
\* returns a frame (get_latest_frame, get_frame_blocking at once or after
\* its wait) returns a frame the device has delivered, and one captured
\* later than the frame the get before it returned: the frames the gets
\* return, in order, are a strictly increasing subsequence of the captures.
C37_GetsInCaptureOrder ==
    [][(/\ BagCardinality(loops) = 1
        /\ frame_queue # <<>>
        /\ GetLatestFrame \/ GetFrameBlocking \/ GetFrameBlockingEnd) =>
          /\ QGot(frame_queue) \in 1..nframes
          /\ QGot(frame_queue) > last_got
          /\ last_got' = QGot(frame_queue)]_vars

\* One thread, a frame has been got, and the next get returns a frame too.
C37_Witness ==
    /\ BagCardinality(loops) = 1
    /\ last_got > 0
    /\ frame_queue # <<>>
    /\ cpc = "idle"

\* C35: once stop_capture has returned (and no other CameraManager call has
\* returned since), no capture thread takes a step that reads the device,
\* evicts from or puts into the queue, or calls the callback.
C35_QuietAfterStop ==
    [][(mpc = "idle" /\ lastOp = "stop_capture") =>
          /\ ~\E th \in Created, d \in DevRead : Read(th, d)
          /\ ~\E th \in Created : Evict(th) \/ Put(th)
          /\ ~\E th \in Created, r \in CallbackOutcomes : Callback(th, r)]_vars

\* C33: the loop tests is_running once per iteration and exits on a test
\* that finds it cleared; and once stop_capture has cleared it, it is not
\* set again while a capture loop that was running then is still alive, so
\* that loop's next test ends it and it starts no further iteration.
C33_StopEndsLoop ==
    [][/\ \A th \in Created :
             (LoopCheck(th) /\ ~is_running) => loops' = Moved(th, Thread("exited", 0))
       /\ (~is_running /\ is_running') => NAlive = 0]_vars

\* C39: with add_results called by the GUI thread and by the capture thread,
\* their tests and appends interleaved in any order, results_history never
\* holds the same data in two entries.
C39_UniqueUnderInterleaving ==
    \A i \in DOMAIN results_history : \A j \in DOMAIN results_history :
        i < j => results_history[i].data # results_history[j].data

\* C31: whatever the operator does with the camera button and the Refresh
\* Cameras button, the GUI thread is never inside list_available_cameras
\* while a capture thread is alive.
C31_NoProbeWhileCapturing == Probing => NAlive = 0

====
